---------------------------- MODULE Spec2Model ----------------------------
(***************************************************************************)
(* A model of compress_images.py: the Filter (_should_skip), the Walker    *)
(* (_get_all_images), the Backup Manager (_backup_image), the Compressor   *)
(* (_compress_image), the Dispatcher and the Reporter's counting           *)
(* (_process_directory, _print_summary_report's per-extension statistics), *)
(* and the parameter resolution (get_param).                               *)
(*                                                                         *)
(* Strings are sequences of one-character strings, so that splitext,       *)
(* endswith, lower and concatenation are computed as Python computes them. *)
(* Status texts are sequences of words, so that `in` and startswith are    *)
(* computed on them.                                                       *)
(***************************************************************************)
EXTENDS Naturals, Integers, Sequences, FiniteSets, TLC

VARIABLES
    opts,           \* ProcessingOptions: _process_directory's keyword arguments
    filename,       \* Filter: the file name handed to _should_skip
    skip_result,    \* Filter: <<>> before the call, <<b>> after it returned b
    cli,            \* get_param: what the user typed, per key (None: flag not passed)
    config,         \* get_param: the mapping _load_config returned
    args,           \* get_param: parser.parse_args(), <<>> before parsing
    resolved,       \* get_param: key -> <<>> (not asked yet) or <<value>>
    dirs,           \* file system: the set of directory paths
    disk,           \* file system: file path -> content, for the files that exist
    all_files,      \* Walker: <<>> before the walk, <<list>> after _get_all_images returned it
    walked,         \* Walker: has _get_all_images returned
    LANG_DICT,      \* the global translation table _load_language returned
    phase,          \* _process_directory: "idle", "dispatch", "reported" or "aborted"
    runs,           \* how many times _process_directory (or a direct call) was started
    task,           \* the calls of _compress_image / _backup_image: a sequence of frames
    collected,      \* Dispatcher: the futures the as_completed loop has taken
    results,        \* Dispatcher: the list of result tuples
    total_before,   \* Dispatcher: bytes before, summed over the results
    total_after,    \* Dispatcher: bytes after, summed over the results
    counts,         \* the statistics of lines 333-338, <<>> before they are computed
    ext_stats       \* Reporter: <<>> before the report, <<the ext_stats it built>> after

fvars == <<filename, skip_result>>
pvars == <<cli, config, args, resolved>>
fsvars == <<dirs, disk>>
wvars == <<all_files, walked>>
dvars == <<phase, collected, results, total_before, total_after, counts, ext_stats>>
vars == <<opts, filename, skip_result, cli, config, args, resolved, dirs, disk,
          all_files, walked, LANG_DICT, phase, runs, task, collected, results,
          total_before, total_after, counts, ext_stats>>

-----------------------------------------------------------------------------
(* Bounds *)

MaxNameLen == 3
MaxSufLen == 1
MaxDepth == 2
MaxRuns == 2
MaxCalls == 2
MaxSize == 2
cpu_count == 2

-----------------------------------------------------------------------------
(* Strings *)

Alphabet == {"a", "_", "."}

RECURSIVE StringsUpTo(_)
StringsUpTo(n) ==
    IF n = 0 THEN {<<>>}
    ELSE LET shorter == StringsUpTo(n - 1)
         IN  shorter \cup {Append(s, c) : s \in {t \in shorter : Len(t) = n - 1}, c \in Alphabet}

\* str.rfind(c): the last index of c in s, 0 when there is none (1-based).
rfind(s, c) ==
    IF \E i \in 1..Len(s) : s[i] = c
    THEN CHOOSE i \in 1..Len(s) : s[i] = c /\ \A j \in (i + 1)..Len(s) : s[j] # c
    ELSE 0

\* str.endswith(suffix)
endswith(s, suffix) ==
    /\ Len(suffix) <= Len(s)
    /\ SubSeq(s, Len(s) - Len(suffix) + 1, Len(s)) = suffix

\* os.path.splitext on a name without separators: split at the last dot,
\* unless every character before it is a dot too.
splitext(p) ==
    LET dotIndex == rfind(p, ".")
    IN  IF dotIndex > 0 /\ \E i \in 1..(dotIndex - 1) : p[i] # "."
        THEN <<SubSeq(p, 1, dotIndex - 1), SubSeq(p, dotIndex, Len(p))>>
        ELSE <<p, <<>>>>

-----------------------------------------------------------------------------
(* Filter *)

\* The mutant: the suffix tests made on the whole file name, extension included.
should_skip_unstripped(fname, original_suffix, skip_suffix, skip_original, skip_skip) ==
    IF skip_original /\ endswith(fname, original_suffix) THEN TRUE
    ELSE IF skip_skip /\ endswith(fname, skip_suffix) THEN TRUE
    ELSE FALSE

_should_skip(fname, original_suffix, skip_suffix, skip_original, skip_skip) ==
    LET name == splitext(fname)[1]
    IN  IF skip_original /\ endswith(name, original_suffix) THEN TRUE
        ELSE IF skip_skip /\ endswith(name, skip_suffix) THEN TRUE
        ELSE FALSE

FilterOpts ==
    [original_suffix : StringsUpTo(MaxSufLen),
     skip_suffix     : StringsUpTo(MaxSufLen),
     skip_original   : BOOLEAN,
     skip_skip       : BOOLEAN]

ShouldSkipCall ==
    /\ skip_result = <<>>
    /\ skip_result' = <<_should_skip(filename, opts.original_suffix, opts.skip_suffix,
                                      opts.skip_original, opts.skip_skip)>>
    /\ UNCHANGED <<opts, filename, pvars, fsvars, wvars, LANG_DICT, runs, task, dvars>>

-----------------------------------------------------------------------------
(* File system *)

\* A path is the sequence of its components; a component is a string.
RootName == <<"r">>
root_path == <<RootName>>

dirname(p) == SubSeq(p, 1, Len(p) - 1)
basename(p) == p[Len(p)]
join(d, name) == Append(d, name)

LowerChar(c) ==
    CASE c = "B" -> "b"
      [] c = "K" -> "k"
      [] c = "J" -> "j"
      [] c = "P" -> "p"
      [] c = "G" -> "g"
      [] OTHER   -> c

\* str.lower()
lower(s) == [i \in 1..Len(s) |-> LowerChar(s[i])]

\* What a file holds. kind "image": an image the codec decodes and re-encodes;
\* "alpha": an image the codec reads but cannot write in the format of the
\* file's extension; "junk": not an image; "empty": no bytes.
Content(kind, size, enc) == [kind |-> kind, size |-> size, enc |-> enc]

FilesIn(folder) == {p \in DOMAIN disk : dirname(p) = folder}
SubDirs(folder) == {d \in dirs : Len(d) = Len(folder) + 1 /\ dirname(d) = folder}

RECURSIVE SetToSeq(_)
SetToSeq(S) ==
    IF S = {} THEN <<>>
    ELSE LET x == CHOOSE y \in S : TRUE IN <<x>> \o SetToSeq(S \ {x})

-----------------------------------------------------------------------------
(* Walker *)

image_extensions ==
    {<<".", "j", "p", "g">>, <<".", "j", "p", "e", "g">>, <<".", "p", "n", "g">>,
     <<".", "w", "e", "b", "p">>, <<".", "b", "m", "p">>, <<".", "t", "i", "f", "f">>,
     <<".", "g", "i", "f">>, <<".", "a", "v", "i", "f">>, <<".", "h", "e", "i", "c">>}

\* Image.open(file_path) and img.verify() raise nothing.
_is_image(file_path) == disk[file_path].kind \in {"image", "alpha"}

\* os.walk(top): the directories under top, top first; every sub-directory of
\* a yielded directory is walked, since the loop removes none from the list
\* os.walk hands it.
RECURSIVE walk(_)
RECURSIVE walk_each(_)
walk_each(ds) ==
    IF ds = <<>> THEN <<>> ELSE walk(Head(ds)) \o walk_each(Tail(ds))

walk(top) == <<top>> \o walk_each(SetToSeq(SubDirs(top)))

\* The mutant: the test of lines 400-401 left out, the backup folders listed
\* like every other folder.
visits_every_folder(foldername, backup_folder) == TRUE

\* The loop body's test of a yielded directory: FALSE is `continue`.
visits_folder(foldername, backup_folder) ==
    lower(basename(foldername)) # lower(backup_folder)

images_of_folder(foldername, o) ==
    SelectSeq(SetToSeq(FilesIn(foldername)),
              LAMBDA file_path :
                  /\ lower(splitext(basename(file_path))[2]) \in image_extensions
                  /\ ~_should_skip(basename(file_path), o.original_suffix, o.skip_suffix,
                                   o.skip_original, o.skip_skip)
                  /\ _is_image(file_path))

RECURSIVE images_of_folders(_, _)
images_of_folders(folders, o) ==
    IF folders = <<>> THEN <<>>
    ELSE (IF visits_folder(Head(folders), o.backup_folder)
          THEN images_of_folder(Head(folders), o)
          ELSE <<>>) \o images_of_folders(Tail(folders), o)

\* The mutant: every folder walked twice, so every file listed twice.
get_all_images_repeating(root, o) == images_of_folders(walk(root) \o walk(root), o)

_get_all_images(root, o) == images_of_folders(walk(root), o)

GetAllImagesCall ==
    /\ ~walked
    /\ all_files' = _get_all_images(root_path, opts)
    /\ walked' = TRUE
    /\ UNCHANGED <<opts, fvars, pvars, fsvars, LANG_DICT, runs, task, dvars>>

-----------------------------------------------------------------------------
(* Translation *)

\* A text is a sequence of words. The raw key t() falls back to is one word.
KeyText(key) ==
    CASE key = <<"status", "compressed">>     -> "status.compressed"
      [] key = <<"status", "skipped">>        -> "status.skipped"
      [] key = <<"status", "skip_keyword">>   -> "status.skip_keyword"
      [] key = <<"status", "error_keyword">>  -> "status.error_keyword"
      [] key = <<"status", "backup_error">>   -> "status.backup_error"
      [] key = <<"status", "compress_error">> -> "status.compress_error"

\* t(key): the table's text under the dotted key, the key itself when a part
\* of it is missing.
t(key) ==
    IF key[1] \in DOMAIN LANG_DICT /\ key[2] \in DOMAIN LANG_DICT[key[1]]
    THEN LANG_DICT[key[1]][key[2]]
    ELSE <<KeyText(key)>>

\* text.format(error=e): e in the place of every {error}.
RECURSIVE format(_, _)
format(text, e) ==
    IF text = <<>> THEN <<>>
    ELSE (IF Head(text) = "{error}" THEN e ELSE <<Head(text)>>) \o format(Tail(text), e)

\* sub in text
contains(text, sub) ==
    \E i \in 0..(Len(text) - Len(sub)) : SubSeq(text, i + 1, i + Len(sub)) = sub

\* text.startswith(prefix)
startswith(text, prefix) ==
    Len(prefix) <= Len(text) /\ SubSeq(text, 1, Len(prefix)) = prefix

-----------------------------------------------------------------------------
(* Backup Manager and Compressor: one frame per call *)

\* The default of _compress_image's and _backup_image's original_suffix.
default_original_suffix == <<"_", "o", "r", "i", "g", "i", "n", "a", "l">>

\* partial(_compress_image, compress_quality=..., backup=..., backup_folder=...):
\* the keyword arguments a submitted task runs with. original_suffix is not
\* among those bound, so the task runs with the function's default.
partial_compress_image(o) ==
    [backup          |-> o.backup,
     backup_folder   |-> o.backup_folder,
     original_suffix |-> default_original_suffix]

\* A direct call, every keyword argument given.
direct_call_args(o) ==
    [backup          |-> o.backup,
     backup_folder   |-> o.backup_folder,
     original_suffix |-> o.original_suffix]

\* backup_dir and backup_path of _backup_image
backup_dir_of(file_path, kw) == join(dirname(file_path), kw.backup_folder)
backup_path_of(file_path, kw) ==
    LET name == splitext(basename(file_path))[1]
        ext  == splitext(basename(file_path))[2]
    IN  join(backup_dir_of(file_path, kw), name \o kw.original_suffix \o ext)

NoResult == <<>>

NewFrame(entry, file_path, kw) ==
    [entry        |-> entry,         \* the function called
     file_path    |-> file_path,
     kw           |-> kw,
     pc           |-> "queued",
     backed_up    |-> FALSE,         \* _backup_image's first return value
     backup_status |-> <<>>,         \* _backup_image's second return value
     size_before  |-> 0,
     ret          |-> NoResult,      \* <<the tuple _compress_image returned>>
     \* history, for the claims:
     had_backup   |-> FALSE,         \* backup_path existed when the call began
     content0     |-> Content("junk", 0, 0), \* the file's content when the call began
     outcome      |-> "none"]        \* how the call went: "backup_skipped", "backed_up",
                                     \* "backup_failed", "compressed", "compress_error"

\* The mutant: the size read at line 481 returned in every tuple, also in
\* those of the early return and of the except branch.
image_result_of_size_read(f, before, after, status, timestamp) ==
    [file_path |-> f.file_path, before |-> f.size_before, after |-> after, status |-> status,
     ext |-> lower(splitext(basename(f.file_path))[2]), timestamp |-> timestamp]

ImageResult(f, before, after, status, timestamp) ==
    [file_path |-> f.file_path, before |-> before, after |-> after, status |-> status,
     ext |-> lower(splitext(basename(f.file_path))[2]), timestamp |-> timestamp]

Final(f) == f.pc \in {"done", "raised", "backup_returned_to_caller"}
Running(f) == ~Final(f) /\ f.pc # "queued"

OtherVars == <<opts, fvars, pvars, wvars, LANG_DICT, runs>>

\* A worker takes the call up: lines 471-475 (or the entry of _backup_image).
Begin(i) ==
    /\ i \in 1..Len(task)
    /\ task[i].pc = "queued"
    /\ Cardinality({j \in 1..Len(task) : Running(task[j])}) < cpu_count
    /\ LET f == task[i]
           g == [f EXCEPT !.had_backup = backup_path_of(f.file_path, f.kw) \in DOMAIN disk,
                          !.content0 = disk[f.file_path]]
       IN  task' = [task EXCEPT ![i] =
                [g EXCEPT !.pc = IF f.entry = "_backup_image" \/ f.kw.backup
                                 THEN "makedirs" ELSE "getsize"]]
    /\ UNCHANGED <<OtherVars, fsvars, dvars>>

\* os.makedirs(backup_dir, exist_ok=True), line 514: nothing to do when the
\* directory is there; otherwise it creates it or raises (no permission,
\* read-only medium), and nothing in _backup_image or _compress_image catches
\* what it raises.
Makedirs(i) ==
    /\ i \in 1..Len(task)
    /\ task[i].pc = "makedirs"
    /\ LET d == backup_dir_of(task[i].file_path, task[i].kw)
       IN  \/ /\ dirs' = dirs \cup {d}
              /\ task' = [task EXCEPT ![i].pc = "exists"]
           \/ /\ d \notin dirs
              /\ dirs' = dirs
              /\ task' = [task EXCEPT ![i].pc = "raised"]
    /\ UNCHANGED <<OtherVars, disk, dvars>>

\* The mutant: the test of line 517 left out, the copy made in every case.
backup_exists_ignored(file_path, kw) == FALSE

\* os.path.exists(backup_path), line 517
backup_exists(file_path, kw) == backup_path_of(file_path, kw) \in DOMAIN disk

\* Lines 516-518
Exists(i) ==
    /\ i \in 1..Len(task)
    /\ task[i].pc = "exists"
    /\ LET f == task[i]
       IN  task' = [task EXCEPT ![i] =
               IF backup_exists(f.file_path, f.kw)
               THEN [f EXCEPT !.pc = "backup_returned", !.backed_up = FALSE,
                              !.backup_status = t(<<"status", "skipped">>),
                              !.outcome = "backup_skipped"]
               ELSE [f EXCEPT !.pc = "copy"]]
    /\ UNCHANGED <<OtherVars, fsvars, dvars>>

CopyErrors == {<<"EIO">>}

\* shutil.copy2(file_path, backup_path), lines 520-524: the whole content
\* arrives, or an error is caught; the error may come before any byte is
\* written or after the destination was created and partly written.
Copy(i) ==
    /\ i \in 1..Len(task)
    /\ task[i].pc = "copy"
    /\ LET src == task[i].file_path
           dst == backup_path_of(src, task[i].kw)
       IN  \/ /\ disk' = [p \in DOMAIN disk \cup {dst} |-> IF p = dst THEN disk[src] ELSE disk[p]]
              /\ task' = [task EXCEPT ![i] =
                     [task[i] EXCEPT !.pc = "backup_returned", !.backed_up = TRUE,
                               !.backup_status = <<"backup_path">>,
                               !.outcome = "backed_up"]]
           \/ \E e \in CopyErrors, partly \in BOOLEAN :
              /\ disk' = IF partly
                         THEN [p \in DOMAIN disk \cup {dst} |->
                                  IF p = dst THEN Content("partial", 0, disk[src].enc) ELSE disk[p]]
                         ELSE disk
              /\ task' = [task EXCEPT ![i] =
                     [task[i] EXCEPT !.pc = "backup_returned", !.backed_up = FALSE,
                               !.backup_status = format(t(<<"status", "backup_error">>), e),
                               !.outcome = "backup_failed"]]
    /\ UNCHANGED <<OtherVars, dirs, dvars>>

\* The mutant: the compression goes on whatever _backup_image returned.
compress_after_backup_always(backed_up) == TRUE

\* Line 477: does the Compressor go on to compress: `if not backed_up: return`.
compress_after_backup(backed_up) == backed_up

\* Lines 476-478: _backup_image has returned to _compress_image.
BackupReturned(i) ==
    /\ i \in 1..Len(task)
    /\ task[i].pc = "backup_returned"
    /\ LET f == task[i]
       IN  task' = [task EXCEPT ![i] =
               IF f.entry = "_backup_image"
               THEN [f EXCEPT !.pc = "backup_returned_to_caller"]
               ELSE IF compress_after_backup(f.backed_up)
               THEN [f EXCEPT !.pc = "getsize"]
               ELSE [f EXCEPT !.pc = "done",
                              !.ret = <<ImageResult(f, 0, 0, f.backup_status, "")>>]]
    /\ UNCHANGED <<OtherVars, fsvars, dvars>>

\* size_before = os.path.getsize(file_path), line 481
Getsize(i) ==
    /\ i \in 1..Len(task)
    /\ task[i].pc = "getsize"
    /\ task' = [task EXCEPT ![i] =
           [task[i] EXCEPT !.pc = "save", !.size_before = disk[task[i].file_path].size]]
    /\ UNCHANGED <<OtherVars, fsvars, dvars>>

CodecErrors == {<<"cannot">>}

\* What Image.open(file_path) and img.save(file_path, ...) of lines 483-484 can
\* do to a file of this kind: "saved" (the file re-encoded), "unread" (an
\* exception before the file is opened for writing: not an image, or data
\* that does not decode), "unwritten" (an exception after img.save opened the
\* file for writing, which empties it: a mode the format cannot hold, or no
\* room on the medium).
save_outcomes(kind) ==
    CASE kind = "image" -> {"saved", "unread", "unwritten"}
      [] kind = "alpha" -> {"unwritten"}
      [] OTHER          -> {"unread"}

\* Lines 483-492
Save(i) ==
    /\ i \in 1..Len(task)
    /\ task[i].pc = "save"
    /\ LET f == task[i]
           src == f.file_path
       IN  \E how \in save_outcomes(disk[src].kind) :
              \/ /\ how = "saved"
                 /\ \E size_after \in 1..MaxSize :
                    /\ disk' = [disk EXCEPT ![src] = Content("image", size_after, @.enc + 1)]
                    /\ task' = [task EXCEPT ![i] =
                           [f EXCEPT !.pc = "done", !.outcome = "compressed",
                                     !.ret = <<ImageResult(f, f.size_before, size_after,
                                                           t(<<"status", "compressed">>), "now")>>]]
              \/ /\ how # "saved"
                 /\ \E e \in CodecErrors :
                    /\ disk' = IF how = "unwritten"
                               THEN [disk EXCEPT ![src] = Content("empty", 0, @.enc)]
                               ELSE disk
                    /\ task' = [task EXCEPT ![i] =
                           [f EXCEPT !.pc = "done", !.outcome = "compress_error",
                                     !.ret = <<ImageResult(f, 0, 0,
                                                 format(t(<<"status", "compress_error">>), e),
                                                 "now")>>]]
    /\ UNCHANGED <<OtherVars, dirs, dvars>>

-----------------------------------------------------------------------------
(* Dispatcher and the Reporter's counting *)

\* Lines 303-319: the walk, then one task submitted per listed file.
StartRun ==
    /\ phase \in {"idle", "reported", "aborted"}
    /\ \A i \in 1..Len(task) : Final(task[i])
    /\ runs < MaxRuns
    /\ runs' = runs + 1
    /\ LET files == _get_all_images(root_path, opts)
       IN  /\ all_files' = files
           /\ task' = [i \in 1..Len(files) |->
                          NewFrame("_compress_image", files[i], partial_compress_image(opts))]
    /\ walked' = TRUE
    /\ phase' = "dispatch"
    /\ collected' = {}
    /\ results' = <<>>
    /\ total_before' = 0
    /\ total_after' = 0
    /\ counts' = <<>>
    /\ ext_stats' = <<>>
    /\ UNCHANGED <<opts, fvars, pvars, LANG_DICT, fsvars>>

\* Lines 320-327, one turn of the as_completed loop: future.result() returns
\* the task's tuple, or raises what the task raised, which nothing catches:
\* it leaves the loop and _process_directory.
Collect(i) ==
    /\ phase = "dispatch"
    /\ i \in 1..Len(task)
    /\ i \notin collected
    /\ task[i].pc \in {"done", "raised"}
    /\ collected' = collected \cup {i}
    /\ IF task[i].pc = "raised"
       THEN /\ phase' = "aborted"
            /\ UNCHANGED <<results, total_before, total_after>>
       ELSE LET r == task[i].ret[1]
            IN  /\ phase' = phase
                /\ results' = Append(results, r)
                /\ total_before' = IF r.before # 0 /\ r.after # 0
                                   THEN total_before + r.before ELSE total_before
                /\ total_after' = IF r.before # 0 /\ r.after # 0
                                  THEN total_after + r.after ELSE total_after
    /\ UNCHANGED <<OtherVars, fsvars, task, counts, ext_stats>>

Records == 1..Len(results)

IsSuccess(r) == r.status = t(<<"status", "compressed">>)
IsSkipped(r) == contains(r.status, t(<<"status", "skip_keyword">>))
IsError(r) == startswith(r.status, t(<<"status", "error_keyword">>))
IsOriginalBackup(r) == r.status = t(<<"status", "skipped">>)
HasNoTimestamp(r) == r.timestamp = ""

\* Lines 333-338
statistics ==
    LET count_success == Cardinality({k \in Records : IsSuccess(results[k])})
        count_skipped == Cardinality({k \in Records : IsSkipped(results[k])})
        count_error   == Cardinality({k \in Records : IsError(results[k])})
    IN  [total_files            |-> Len(all_files),
         count_success          |-> count_success,
         count_skipped          |-> count_skipped,
         count_error            |-> count_error,
         count_unreadable       |->
             Cardinality({k \in Records : HasNoTimestamp(results[k])}) - count_skipped,
         count_original_backups |->
             Cardinality({k \in Records : IsOriginalBackup(results[k])})]

NoStats == [count |-> 0, before |-> 0, after |-> 0]

\* The mutant: every record counted under its extension, the failed and the
\* skipped ones too.
ext_stats_counting_all(stats, r) ==
    LET old == IF r.ext \in DOMAIN stats THEN stats[r.ext] ELSE NoStats
    IN  [e \in DOMAIN stats \cup {r.ext} |->
            IF e = r.ext
            THEN [count |-> old.count + 1, before |-> old.before + r.before,
                  after |-> old.after + r.after]
            ELSE stats[e]]

\* One turn of the loop of lines 567-579 on record r: ext_stats is a
\* defaultdict, an extension enters it with the first record counted under it.
ext_stats_add(stats, r) ==
    IF r.before # 0 /\ r.after # 0
    THEN LET old == IF r.ext \in DOMAIN stats THEN stats[r.ext] ELSE NoStats
         IN  [e \in DOMAIN stats \cup {r.ext} |->
                 IF e = r.ext
                 THEN [count |-> old.count + 1, before |-> old.before + r.before,
                       after |-> old.after + r.after]
                 ELSE stats[e]]
    ELSE stats

RECURSIVE _print_summary_report(_)
\* Lines 562-579 and 616: the ext_stats built from the results, in their order.
_print_summary_report(rs) ==
    IF rs = <<>> THEN <<>>
    ELSE ext_stats_add(_print_summary_report(SubSeq(rs, 1, Len(rs) - 1)), rs[Len(rs)])

\* The mutant: the loop left after the first future that completed.
first_future_taken == collected # {} \/ Len(task) = 0

\* `for future in as_completed(futures)`, line 320, has yielded every future.
all_futures_taken == collected = 1..Len(task)

\* The loop has taken every future: the statistics of lines 330-338 and the
\* call of _print_summary_report, lines 341-354.
Statistics ==
    /\ phase = "dispatch"
    /\ all_futures_taken
    /\ counts' = <<statistics>>
    /\ ext_stats' = <<_print_summary_report(results)>>
    /\ phase' = "reported"
    /\ UNCHANGED <<OtherVars, fsvars, task, collected, results, total_before, total_after>>

-----------------------------------------------------------------------------
(* Parameter resolution *)

None == "None"

Keys == {"path", "compress_quality", "backup", "original_suffix"}

\* The `default` each call site of get_param passes.
HardDefault(key) ==
    CASE key = "path"             -> None
      [] key = "compress_quality" -> "85"
      [] key = "backup"           -> "True"
      [] key = "original_suffix"  -> "_original"

\* The `default=` of each parser.add_argument.
ParserDefault(key) ==
    CASE key = "path"             -> None
      [] key = "compress_quality" -> "85"
      [] key = "backup"           -> "True"
      [] key = "original_suffix"  -> "_original"

CliValues == {"cli_value"}
ConfigValues == {"config_value"}

\* parser.parse_args(): the flag's value when passed, the parser default otherwise.
parse_args(typed) ==
    [k \in Keys |-> IF typed[k] # None THEN typed[k] ELSE ParserDefault(k)]

\* config.get(key)
config_get(key) == IF key \in DOMAIN config THEN config[key] ELSE None

get_param(key, default) ==
    LET cli_value == args[1][key]
    IN  IF cli_value # None THEN cli_value
        ELSE LET config_value == config_get(key)
             IN  IF config_value # None THEN config_value ELSE default

ParseArgs ==
    /\ args = <<>>
    /\ args' = <<parse_args(cli)>>
    /\ UNCHANGED <<opts, fvars, cli, config, resolved, fsvars, wvars, LANG_DICT, runs, task, dvars>>

GetParam(key) ==
    /\ args # <<>>
    /\ resolved[key] = <<>>
    /\ resolved' = [resolved EXCEPT ![key] = <<get_param(key, HardDefault(key))>>]
    /\ UNCHANGED <<opts, fvars, cli, config, args, fsvars, wvars, LANG_DICT, runs, task, dvars>>

-----------------------------------------------------------------------------
(* Claims about the Filter *)

\* The base name with its extension stripped, stated without splitext: the
\* extension starts at a dot that no dot follows and that some character other
\* than a dot precedes.
IsExtensionDot(fname, d) ==
    /\ fname[d] = "."
    /\ \A j \in (d + 1)..Len(fname) : fname[j] # "."
    /\ \E i \in 1..(d - 1) : fname[i] # "."

StemOf(fname) ==
    IF \E d \in 1..Len(fname) : IsExtensionDot(fname, d)
    THEN SubSeq(fname, 1, (CHOOSE d \in 1..Len(fname) : IsExtensionDot(fname, d)) - 1)
    ELSE fname

HasSuffix(s, suffix) == \E k \in 0..Len(s) : SubSeq(s, 1, k) \o suffix = s

\* C9: _should_skip returns true if and only if (skip_original and the base
\* name with its extension stripped ends with original_suffix) or (skip_skip
\* and that base name ends with skip_suffix); so it is true whatever the
\* extension when skip_original is set and the name ends with original_suffix,
\* and false for every file name when both flags are off.
C9_FilterIff ==
    skip_result # <<>> =>
        /\ skip_result[1] =
              (\/ opts.skip_original /\ HasSuffix(StemOf(filename), opts.original_suffix)
               \/ opts.skip_skip /\ HasSuffix(StemOf(filename), opts.skip_suffix))
        /\ (opts.skip_original /\ HasSuffix(StemOf(filename), opts.original_suffix))
              => skip_result[1]
        /\ (~opts.skip_original /\ ~opts.skip_skip) => ~skip_result[1]

\* A file with an extension whose stem, and not whose whole name, ends with the
\* original suffix, skipped on that ground alone.
C9_Witness ==
    /\ skip_result = <<TRUE>>
    /\ opts.skip_original /\ ~opts.skip_skip
    /\ opts.original_suffix # <<>>
    /\ splitext(filename)[2] # <<>>
    /\ ~endswith(filename, opts.original_suffix)

-----------------------------------------------------------------------------
(* Claims about the parameter resolution *)

ConfigHas(key) == key \in DOMAIN config /\ config[key] # None

\* C5: every parameter is the command line's value if the user passed the
\* flag, otherwise the configuration file's value if the key is set there,
\* otherwise the hard default; in particular a key set in the configuration
\* file and not passed on the command line takes the file's value.
C5_LayeredResolution ==
    \A key \in Keys :
        resolved[key] # <<>> =>
            resolved[key][1] =
                IF cli[key] # None THEN cli[key]
                ELSE IF ConfigHas(key) THEN config[key]
                ELSE HardDefault(key)

-----------------------------------------------------------------------------
(* Claims about the Walker *)

\* The path lies inside a directory named like the backup folder, directly or
\* in one of its sub-directories.
InsideBackupFolder(p, backup_folder) ==
    \E k \in 2..(Len(p) - 1) : lower(p[k]) = lower(backup_folder)

\* C4: _get_all_images never returns a path inside a directory whose base name
\* case-insensitively equals the backup-folder name, at any depth.
C4_WalkerExcludesBackupTree ==
    walked => \A i \in 1..Len(all_files) : ~InsideBackupFolder(all_files[i], opts.backup_folder)

-----------------------------------------------------------------------------
(* Claims about the Backup Manager, the Compressor and the Dispatcher *)

Calls == 1..Len(task)
IsCompress(i) == task[i].entry = "_compress_image"
IsBackup(i) == task[i].entry = "_backup_image"
BackupPath(i) == backup_path_of(task[i].file_path, task[i].kw)

\* C1: a step overwrites the file of a _compress_image call only if backup is
\* disabled for the call, or _backup_image has returned success to it and the
\* complete copy is at the backup path; never while the backup failed, was
\* skipped or has not completed.
C1_BackupBeforeOverwrite ==
    [][\A i \in Calls :
          (IsCompress(i) /\ ~Final(task[i])
              /\ disk'[task[i].file_path] # disk[task[i].file_path])
          => \/ ~task[i].kw.backup
             \/ /\ task[i].backed_up
                /\ task[i].outcome = "backed_up"
                /\ BackupPath(i) \in DOMAIN disk
                /\ disk[BackupPath(i)] = disk[task[i].file_path]]_vars

\* A file compressed with backup enabled, its backup made by the same call.
C1_Witness ==
    \E i \in Calls :
        /\ IsCompress(i) /\ task[i].kw.backup /\ task[i].backed_up
        /\ task[i].outcome = "compressed"
        /\ disk[task[i].file_path] # task[i].content0
        /\ disk[BackupPath(i)] = task[i].content0

RunOver == phase \in {"reported", "aborted"} /\ \A i \in Calls : Final(task[i])

\* C2: for N files handed to the Dispatcher, whatever fails for single files
\* (the creation of the backup directory, the copy, the decoding, the
\* encoding), the run collects exactly N result records.
C2_OneResultPerFile == RunOver => Len(results) = Len(all_files)

\* The backup path of the file under the configured options.
ConfiguredBackupPath(file_path) ==
    LET name == splitext(basename(file_path))[1]
        ext  == splitext(basename(file_path))[2]
    IN  join(join(dirname(file_path), opts.backup_folder), name \o opts.original_suffix \o ext)

\* C3: when _process_directory runs with backup enabled and the original
\* suffix S, the backup of <dir>/<name><ext> is written at
\* <dir>/<backup_folder>/<name>S<ext>.
C3_BackupAtConfiguredSuffix ==
    \A i \in Calls :
        (IsCompress(i) /\ task[i].outcome \in {"backed_up", "compressed", "compress_error"}
            /\ task[i].backed_up)
        => /\ ConfiguredBackupPath(task[i].file_path) \in DOMAIN disk
           /\ disk[ConfiguredBackupPath(task[i].file_path)] = task[i].content0

\* The call is inside _backup_image (lines 509-524).
InBackupImage(i) == task[i].pc \in {"makedirs", "exists", "copy"}

\* Two calls of _backup_image in succession on the same file, the second
\* being the last call made.
Successive(j, k) ==
    /\ k = j + 1
    /\ k = Len(task)
    /\ IsBackup(j) /\ IsBackup(k)
    /\ task[j].file_path = task[k].file_path
    /\ task[j].pc = "backup_returned_to_caller"
    /\ task[k].pc = "backup_returned_to_caller"

\* C6: of two calls of _backup_image in succession on the same file, no backup
\* being there at first and no I/O error occurring, the first copies the file
\* and returns success with the backup path, the second returns the skip
\* outcome and copies nothing, the backup being still the copy the first call
\* made; and no step of _backup_image changes a file that exists, so none
\* overwrites an existing backup.
C6_BackupIdempotent ==
    /\ [](\A j, k \in Calls :
            (Successive(j, k) /\ ~task[j].had_backup /\ task[j].outcome # "backup_failed")
            => /\ task[j].backed_up
               /\ task[j].backup_status = <<"backup_path">>
               /\ task[j].outcome = "backed_up"
               /\ ~task[k].backed_up
               /\ task[k].backup_status = t(<<"status", "skipped">>)
               /\ task[k].outcome = "backup_skipped"
               /\ disk[BackupPath(j)] = task[j].content0)
    /\ [][\A i \in Calls :
            (InBackupImage(i) /\ task'[i] # task[i])
            => \A p \in DOMAIN disk : disk'[p] = disk[p]]_vars

\* The second of two successive calls has returned the skip outcome.
C6_Witness ==
    \E j, k \in Calls :
        /\ Successive(j, k)
        /\ ~task[j].had_backup /\ task[j].outcome = "backed_up"
        /\ task[k].had_backup /\ task[k].outcome = "backup_skipped"

\* C7: with backup enabled, _compress_image on a file whose backup path exists
\* when the call begins returns (file_path, 0, 0, the backup-skip status, ext,
\* '') and never writes to the file.
C7_SkipWhenBackedUp ==
    \A i \in Calls :
        (IsCompress(i) /\ task[i].kw.backup /\ task[i].had_backup)
        => /\ task[i].pc \in {"makedirs", "exists", "backup_returned", "done"}
           /\ disk[task[i].file_path] = task[i].content0
           /\ task[i].pc = "done" =>
                 task[i].ret = <<ImageResult(task[i], 0, 0, t(<<"status", "skipped">>), "")>>

\* In the second run, a file the first run backed up and compressed is done.
C7_Witness ==
    \E i \in Calls :
        /\ runs = 2 /\ phase = "dispatch"
        /\ IsCompress(i) /\ task[i].kw.backup /\ task[i].had_backup
        /\ task[i].pc = "done"
        /\ task[i].content0.enc = 1

\* C8: when the decode/re-encode step of _compress_image fails, the call
\* returns zero sizes, the compression-error status and a non-empty
\* timestamp, and the failed attempt leaves the file's content as it was.
C8_FailedCompressionLeavesFile ==
    [][\A i \in Calls :
          (IsCompress(i) /\ task[i].pc = "save" /\ task'[i].outcome = "compress_error")
          => /\ task'[i].ret[1].before = 0
             /\ task'[i].ret[1].after = 0
             /\ \E e \in CodecErrors :
                   task'[i].ret[1].status = format(t(<<"status", "compress_error">>), e)
             /\ task'[i].ret[1].timestamp # ""
             /\ disk'[task[i].file_path] = disk[task[i].file_path]]_vars

\* The Reporter's fourth category: never reached compression and not a skip.
IsUnreadable(r) == HasNoTimestamp(r) /\ ~IsSkipped(r)

CategoriesOf(r) ==
    {c \in {"success", "skipped", "unreadable", "error"} :
        \/ c = "success" /\ IsSuccess(r)
        \/ c = "skipped" /\ IsSkipped(r)
        \/ c = "unreadable" /\ IsUnreadable(r)
        \/ c = "error" /\ IsError(r)}

\* C10: for every result list and translation table, the counting puts each
\* record in exactly one of compressed-success, skipped, unreadable and
\* compression-error, so the four counts sum to the number of records.
C10_ExactlyOneCategory ==
    phase = "reported" =>
        /\ \A k \in 1..Len(results) : Cardinality(CategoriesOf(results[k])) = 1
        /\ counts[1].count_success + counts[1].count_skipped
              + counts[1].count_unreadable + counts[1].count_error = Len(results)

\* C11: each file path of the Walker's list is submitted to exactly one
\* _compress_image task, so no two tasks of a run, and in particular no two
\* that workers are running at the same time, are on the same file.
C11_OneTaskPerFile ==
    /\ Len(task) = Len(all_files)
    /\ \A i \in Calls : IsCompress(i) /\ task[i].file_path = all_files[i]
    /\ \A i, j \in Calls : i # j => task[i].file_path # task[j].file_path
    /\ \A i, j \in Calls :
           (i # j /\ Running(task[i]) /\ Running(task[j]))
           => task[i].file_path # task[j].file_path

\* Two workers at the decode/re-encode step at the same time.
C11_Witness ==
    \E i, j \in Calls :
        /\ i # j
        /\ task[i].pc = "save" /\ task[j].pc = "save"

AllCallsFinished == \A i \in Calls : Final(task[i])

\* A step of a worker: a call moves on within a run.
WorkerStep == task' # task /\ runs' = runs

\* A step of the run that aggregates: it changes a byte total or the category
\* counts, or hands the results over to the Reporter.
TotalsStep == runs' = runs /\ (total_before' # total_before \/ total_after' # total_after)
ReportStep == runs' = runs /\ (counts' # counts \/ (phase' = "reported" /\ phase # "reported"))

\* C12: no aggregation is streamed: no step of a worker changes a shared
\* counter, and every step that changes total_before or total_after, sets the
\* category counts or hands the results to the Reporter is taken when every
\* submitted _compress_image call has finished.
C12_NoStreamedAggregation ==
    [][/\ WorkerStep => UNCHANGED dvars
       /\ (TotalsStep \/ ReportStep) => AllCallsFinished]_vars

\* C12 as amended: no step of a worker changes a shared counter; the byte
\* totals are added up by the Dispatcher alone, one finished call's result at
\* a time as the results are collected; the category counts and the hand-over
\* to the Reporter come when every submitted call has finished and every
\* result is collected.
C12_AggregationByDispatcher ==
    [][/\ WorkerStep => UNCHANGED dvars
       /\ TotalsStep =>
             \E i \in Calls :
                /\ task[i].pc = "done" /\ task' = task
                /\ collected' = collected \cup {i} /\ i \notin collected
                /\ total_before' = total_before + task[i].ret[1].before
                /\ total_after' = total_after + task[i].ret[1].after
       /\ ReportStep =>
             /\ AllCallsFinished
             /\ Len(results) = Len(task)
             /\ UNCHANGED <<results, total_before, total_after>>]_vars

\* The report made of a run of two files whose totals were added up.
C12_Witness ==
    /\ phase = "reported"
    /\ counts # <<>>
    /\ Len(results) = 2
    /\ total_before > 0 /\ total_after > 0

\* The tuples the calls have returned so far, collected or not.
Returned == {task[i].ret[1] : i \in {j \in Calls : task[j].ret # NoResult}}

RECURSIVE SumOver(_, _, _)
\* The sum of field fld ("before" or "after") over the records of rs chosen by keep.
SumOver(rs, keep, fld) ==
    IF rs = <<>> THEN 0
    ELSE (IF keep[Len(rs)]
          THEN (IF fld = "before" THEN rs[Len(rs)].before ELSE rs[Len(rs)].after)
          ELSE 0)
         + SumOver(SubSeq(rs, 1, Len(rs) - 1), SubSeq(keep, 1, Len(rs) - 1), fld)

SuccessOnly == [k \in Records |-> IsSuccess(results[k])]

\* C13: a returned record whose status equals the 'compressed' status has
\* size-before and size-after both zero or both positive; every other record
\* has both sizes zero, so the byte totals are made up of the records counted
\* as compressed alone.
C13_SizesBothOrNeither ==
    /\ \A r \in Returned :
          IF IsSuccess(r)
          THEN (r.before = 0 /\ r.after = 0) \/ (r.before > 0 /\ r.after > 0)
          ELSE r.before = 0 /\ r.after = 0
    /\ total_before = SumOver(results, SuccessOnly, "before")
    /\ total_after = SumOver(results, SuccessOnly, "after")

\* A run reported with one file compressed and the other failed after its
\* size had been read.
C13_Witness ==
    /\ phase = "reported"
    /\ \E j, k \in Records :
          /\ IsSuccess(results[j]) /\ results[j].before > 0 /\ results[j].after > 0
          /\ ~IsSuccess(results[k]) /\ results[k].timestamp # ""

RECURSIVE SumStats(_, _)
\* The sum of ext_stats[ext][fld] over the extensions exts.
SumStats(exts, fld) ==
    IF exts = {} THEN 0
    ELSE LET e == CHOOSE x \in exts : TRUE
         IN  ext_stats[1][e][fld] + SumStats(exts \ {e}, fld)

\* C14: the per-extension statistics the Reporter built agree with the totals
\* the Dispatcher built: over the extensions, the 'before' sum to
\* total_before, the 'after' to total_after, and the 'count' to the number of
\* records whose two sizes are both non-zero.
C14_ExtStatsAgreeWithTotals ==
    phase = "reported" =>
        /\ SumStats(DOMAIN ext_stats[1], "before") = total_before
        /\ SumStats(DOMAIN ext_stats[1], "after") = total_after
        /\ SumStats(DOMAIN ext_stats[1], "count") =
              Cardinality({k \in Records : results[k].before # 0 /\ results[k].after # 0})

\* A report over two compressed files of two extensions.
C14_Witness ==
    /\ phase = "reported"
    /\ Cardinality(DOMAIN ext_stats[1]) = 2
    /\ total_before > 0 /\ total_after > 0

\* The named-skip count the Reporter prints (line 594) and writes (CSV).
skipped_named == counts[1].count_skipped - counts[1].count_original_backups

\* C15: every count the Reporter prints or writes is non-negative, for every
\* result list and translation table, the fallback to raw keys included: the
\* unreadable count and the named-skip count are never below zero.
C15_CountsNonNegative ==
    phase = "reported" =>
        /\ counts[1].total_files >= 0
        /\ counts[1].count_success >= 0
        /\ counts[1].count_original_backups >= 0
        /\ counts[1].count_error >= 0
        /\ counts[1].count_unreadable >= 0
        /\ skipped_named >= 0

\* The paths the step writes: the files it creates or changes.
Written == {p \in DOMAIN disk' : p \notin DOMAIN disk \/ disk'[p] # disk[p]}

\* The files call i works on: the one it compresses, the one it backs up to.
FilesOf(i) == {task[i].file_path, BackupPath(i)}

\* C16: within a run, no backup destination of a listed file is itself a
\* listed file, and no two listed files have the same backup destination;
\* so a step of one worker writes the file its call compresses or the file
\* it backs up to, and never a file another call compresses or backs up to.
C16_BackupPathsApart ==
    /\ [](\A i, j \in Calls : BackupPath(i) # task[j].file_path)
    /\ [](\A i, j \in Calls : i # j => BackupPath(i) # BackupPath(j))
    /\ [][(disk' # disk /\ WorkerStep)
            => \A i \in Calls :
                  task'[i] # task[i]
                  => /\ Written \subseteq FilesOf(i)
                     /\ \A j \in Calls \ {i} : Written \cap FilesOf(j) = {}]_vars

\* Two workers at the copy at the same time, one of them on a file the
\* Walker listed from a sub-directory of a backup folder.
C16_Witness ==
    \E i, j \in Calls :
        /\ i # j
        /\ task[i].pc = "copy" /\ task[j].pc = "copy"
        /\ InsideBackupFolder(task[j].file_path, opts.backup_folder)

\* The content is that of a source file no run has written yet, whole.
IsOriginalContent(c) == c.kind # "partial" /\ c.kind # "empty" /\ c.size > 0 /\ c.enc = 0

\* C17: across the runs, a file at the backup destination of a listed file is
\* a complete copy of the source as it was before its first compression;
\* after a copy that failed no file is left at the destination, so a call
\* that skips because the backup exists finds a complete copy there.
C17_BackupIsCompleteOriginal ==
    \A i \in Calls :
        IsCompress(i) =>
            /\ BackupPath(i) \in DOMAIN disk => IsOriginalContent(disk[BackupPath(i)])
            /\ task[i].outcome = "backup_failed" => BackupPath(i) \notin DOMAIN disk
            /\ task[i].outcome = "backup_skipped" =>
                   /\ BackupPath(i) \in DOMAIN disk
                   /\ IsOriginalContent(disk[BackupPath(i)])

-----------------------------------------------------------------------------
(* Idle values of the parts a specification does not use *)

DefaultOpts ==
    [original_suffix |-> <<"_">>, skip_suffix |-> <<"a">>,
     skip_original |-> TRUE, skip_skip |-> TRUE]

FsIdle == dirs = {root_path} /\ disk = <<>>
WalkIdle == all_files = <<>> /\ walked = FALSE
EmptyTable == <<>>
PipelineIdle ==
    /\ LANG_DICT = EmptyTable
    /\ phase = "idle"
    /\ runs = 0
    /\ task = <<>>
    /\ collected = {}
    /\ results = <<>>
    /\ total_before = 0
    /\ total_after = 0
    /\ counts = <<>>
    /\ ext_stats = <<>>

FilterIdle == filename = <<>> /\ skip_result = <<>>
ParamIdle ==
    /\ cli = [k \in Keys |-> None]
    /\ config = [k \in {} |-> None]
    /\ args = <<>>
    /\ resolved = [k \in Keys |-> <<>>]

-----------------------------------------------------------------------------
(* Specifications *)

\* The Filter on every file name and configuration within the bounds.
FilterInit ==
    /\ opts \in FilterOpts
    /\ filename \in StringsUpTo(MaxNameLen) \ {<<>>}
    /\ skip_result = <<>>
    /\ ParamIdle /\ FsIdle /\ WalkIdle /\ PipelineIdle

FilterNext == ShouldSkipCall

SpecFilter == FilterInit /\ [][FilterNext]_vars

\* get_param on every command line and configuration file within the bounds.
ParamInit ==
    /\ opts = DefaultOpts
    /\ FilterIdle
    /\ cli \in [Keys -> {None} \cup CliValues]
    /\ \E present \in SUBSET Keys : config \in [present -> {None} \cup ConfigValues]
    /\ args = <<>>
    /\ resolved = [k \in Keys |-> <<>>]
    /\ FsIdle /\ WalkIdle /\ PipelineIdle

ParamNext == ParseArgs \/ \E key \in Keys : GetParam(key)

SpecParam == ParamInit /\ [][ParamNext]_vars

\* The Walker on every directory tree within the bounds: directories named
\* "d" or "BK" nested to MaxDepth, each holding the image x.jpg or nothing.
TreeNames == {<<"d">>, <<"B", "K">>}

RECURSIVE TreeDirs(_)
TreeDirs(depth) ==
    IF depth = 0 THEN {root_path}
    ELSE LET above == TreeDirs(depth - 1)
         IN  above \cup {join(d, n) : d \in {e \in above : Len(e) = depth}, n \in TreeNames}

XJpg == <<"x", ".", "j", "p", "g">>

WalkOpts ==
    [backup_folder   : {<<"b", "k">>},
     original_suffix : {<<"_">>},
     skip_suffix     : {<<"a">>},
     skip_original   : {TRUE},
     skip_skip       : {TRUE}]

WalkInit ==
    /\ opts \in WalkOpts
    /\ FilterIdle /\ ParamIdle /\ WalkIdle /\ PipelineIdle
    /\ dirs \in {ds \in SUBSET TreeDirs(MaxDepth) :
                    root_path \in ds /\ \A d \in ds : Len(d) > 1 => dirname(d) \in ds}
    /\ \E holders \in SUBSET dirs :
           disk = [p \in {join(d, XJpg) : d \in holders} |-> Content("image", 2, 0)]

WalkNext == GetAllImagesCall

SpecWalk == WalkInit /\ [][WalkNext]_vars

\* The pipeline, run up to MaxRuns times over a directory of up to two files.
EnglishTable ==
    [status |->
        [compressed     |-> <<"Compressed">>,
         skipped        |-> <<"Skipped", "backup", "exists">>,
         skip_keyword   |-> <<"Skipped">>,
         error_keyword  |-> <<"Error">>,
         backup_error   |-> <<"Backup", "failed", "{error}">>,
         compress_error |-> <<"Error", "{error}">>]]

LangTables == {EmptyTable, EnglishTable}

BackupFolder == <<"b", "k">>
AJpg == <<"a", ".", "j", "p", "g">>
BJpg == <<"b", ".", "j", "p", "g">>

PipelineOpts ==
    [backup          : BOOLEAN,
     backup_folder   : {BackupFolder},
     original_suffix : {default_original_suffix, <<"_", "o">>},
     skip_suffix     : {<<"_", "s", "k", "i", "p">>},
     skip_original   : {TRUE},
     skip_skip       : {TRUE}]

SourceKinds == {"image", "alpha"}

Init ==
    /\ opts \in PipelineOpts
    /\ FilterIdle /\ ParamIdle /\ WalkIdle
    /\ LANG_DICT \in LangTables
    /\ dirs = {root_path}
    /\ \E names \in SUBSET {AJpg, BJpg} :
           disk \in [{join(root_path, n) : n \in names} ->
                        {Content(k, MaxSize, 0) : k \in SourceKinds}]
    /\ phase = "idle"
    /\ runs = 0
    /\ task = <<>>
    /\ collected = {}
    /\ results = <<>>
    /\ total_before = 0
    /\ total_after = 0
    /\ counts = <<>>
    /\ ext_stats = <<>>

Next ==
    \/ StartRun
    \/ \E i \in 1..Len(task) : Begin(i)
    \/ \E i \in 1..Len(task) : Makedirs(i)
    \/ \E i \in 1..Len(task) : Exists(i)
    \/ \E i \in 1..Len(task) : Copy(i)
    \/ \E i \in 1..Len(task) : BackupReturned(i)
    \/ \E i \in 1..Len(task) : Getsize(i)
    \/ \E i \in 1..Len(task) : Save(i)
    \/ \E i \in 1..Len(task) : Collect(i)
    \/ Statistics

Spec == Init /\ [][Next]_vars

\* The pipeline over a tree that holds a backup folder with a backup and a
\* sub-directory in it, and images of two extensions.
APng == <<"a", ".", "p", "n", "g">>
AOriginalJpg == <<"a">> \o default_original_suffix \o <<".", "j", "p", "g">>
BackupDir == join(root_path, BackupFolder)
SubDir == join(BackupDir, <<"d">>)
TreeFiles ==
    {join(root_path, AJpg), join(BackupDir, AOriginalJpg), join(SubDir, APng)}

TreeInit ==
    /\ opts \in {o \in PipelineOpts : o.backup}
    /\ FilterIdle /\ ParamIdle /\ WalkIdle
    /\ LANG_DICT = EnglishTable
    /\ dirs = {root_path, BackupDir, SubDir}
    /\ \E files \in SUBSET TreeFiles :
           disk = [p \in files |-> Content("image", MaxSize, 0)]
    /\ phase = "idle"
    /\ runs = 0
    /\ task = <<>>
    /\ collected = {}
    /\ results = <<>>
    /\ total_before = 0
    /\ total_after = 0
    /\ counts = <<>>
    /\ ext_stats = <<>>

SpecTree == TreeInit /\ [][Next]_vars

\* _compress_image and _backup_image called directly, one call after the
\* other, on a file of any kind, with or without a backup already there.
DirectKinds == {"image", "alpha", "junk"}

DirectCall ==
    /\ phase = "idle"
    /\ \A i \in 1..Len(task) : Final(task[i])
    /\ runs < MaxCalls
    /\ runs' = runs + 1
    /\ \E entry \in {"_compress_image", "_backup_image"}, file_path \in DOMAIN disk :
           task' = Append(task, NewFrame(entry, file_path, direct_call_args(opts)))
    /\ UNCHANGED <<opts, fvars, pvars, wvars, LANG_DICT, fsvars, dvars>>

DirectInit ==
    /\ opts \in PipelineOpts
    /\ FilterIdle /\ ParamIdle /\ WalkIdle
    /\ LANG_DICT \in LangTables
    /\ dirs = {root_path}
    /\ disk \in [{join(root_path, AJpg)} -> {Content(k, MaxSize, 0) : k \in DirectKinds}]
    /\ phase = "idle"
    /\ runs = 0
    /\ task = <<>>
    /\ collected = {}
    /\ results = <<>>
    /\ total_before = 0
    /\ total_after = 0
    /\ counts = <<>>
    /\ ext_stats = <<>>

DirectNext ==
    \/ DirectCall
    \/ \E i \in 1..Len(task) : Begin(i)
    \/ \E i \in 1..Len(task) : Makedirs(i)
    \/ \E i \in 1..Len(task) : Exists(i)
    \/ \E i \in 1..Len(task) : Copy(i)
    \/ \E i \in 1..Len(task) : BackupReturned(i)
    \/ \E i \in 1..Len(task) : Getsize(i)
    \/ \E i \in 1..Len(task) : Save(i)

SpecDirect == DirectInit /\ [][DirectNext]_vars

=============================================================================
